---- MODULE Spec2Model ----
(***************************************************************************)
(* The Shoe Zone proxy: the controller (locateStore, checkStoreStock,      *)
(* getProductInfo, fetchWebpage, abbreviateOffer), its two flat-cache      *)
(* stores and the /api routes that wrap every controller promise in the    *)
(* { ok, result } envelope.                                                *)
(*                                                                         *)
(* Text is a sequence of one-character strings.  A JavaScript value that   *)
(* may be undefined is a record tagged by t.  Node runs each callback to   *)
(* completion, so one action is one callback together with the promise     *)
(* reactions it schedules (the route's .then/.catch included).             *)
(***************************************************************************)
EXTENDS Integers, Sequences, FiniteSets, Bags, TLC

\* ------------------------------------------------------------------ bounds

\* Number of requests the server may have awaiting an upstream reply at once.
MaxInFlight == 2

\* The wall clock (Date.now(), ms) is not advanced beyond this value.
MaxNow == 60001

\* -------------------------------------------------------------------- text

UpperLetters ==
    << "A","B","C","D","E","F","G","H","I","J","K","L","M",
       "N","O","P","Q","R","S","T","U","V","W","X","Y","Z" >>

LowerLetters ==
    << "a","b","c","d","e","f","g","h","i","j","k","l","m",
       "n","o","p","q","r","s","t","u","v","w","x","y","z" >>

DigitChars == << "0","1","2","3","4","5","6","7","8","9" >>

Range(s) == { s[i] : i \in 1..Len(s) }

IsUpper(c) == c \in Range(UpperLetters)

IsLower(c) == c \in Range(LowerLetters)

IsDigit(c) == c \in Range(DigitChars)

\* /[A-Z0-9]/i
IsAlnum(c) == IsUpper(c) \/ IsLower(c) \/ IsDigit(c)

\* /[A-Z]/i
IsLetter(c) == IsUpper(c) \/ IsLower(c)

\* the characters String.prototype.trim removes (space, tab)
IsSpace(c) == c \in { " ", "\t" }

IndexOfChar(c, s) == CHOOSE i \in 1..Len(s) : s[i] = c

ToLowerChar(c) == IF IsUpper(c) THEN LowerLetters[IndexOfChar(c, UpperLetters)] ELSE c

ToUpperChar(c) == IF IsLower(c) THEN UpperLetters[IndexOfChar(c, LowerLetters)] ELSE c

\* String.prototype.toLowerCase
toLowerCase(s) == [ i \in 1..Len(s) |-> ToLowerChar(s[i]) ]

\* String.prototype.toUpperCase
toUpperCase(s) == [ i \in 1..Len(s) |-> ToUpperChar(s[i]) ]

\* s.substr(from) with from counted from 0
SubstrFrom(s, from) == SubSeq(s, from + 1, Len(s))

\* s.substr(0, n)
SubstrTo(s, n) == SubSeq(s, 1, IF n < Len(s) THEN n ELSE Len(s))

\* s.substr(-n)
SubstrLast(s, n) == IF Len(s) <= n THEN s ELSE SubSeq(s, Len(s) - n + 1, Len(s))

RECURSIVE Concat(_)
\* the texts of a list one after the other: list.join("")
Concat(list) ==
    IF list = << >> THEN << >> ELSE Head(list) \o Concat(Tail(list))

RECURSIVE Join(_, _)
\* Array.prototype.join(sep)
Join(list, sep) ==
    IF list = << >> THEN << >>
    ELSE IF Len(list) = 1 THEN list[1]
    ELSE list[1] \o sep \o Join(Tail(list), sep)

\* the separator test of a split: " " for s.split(" "), the class /[^A-Z0-9]/gi
\* for the offer abbreviator's split
IsSep(c, sep) == IF sep = "nonalnum" THEN ~IsAlnum(c) ELSE c = sep

RECURSIVE SplitBy(_, _)
\* String.prototype.split: every separator ends a piece, so two separators in
\* a row (or one at either end) give an empty piece
SplitBy(s, sep) ==
    IF \A i \in 1..Len(s) : ~IsSep(s[i], sep) THEN << s >>
    ELSE LET i == CHOOSE j \in 1..Len(s) :
                      IsSep(s[j], sep) /\ \A k \in 1..(j - 1) : ~IsSep(s[k], sep)
         IN  << SubSeq(s, 1, i - 1) >> \o SplitBy(SubSeq(s, i + 1, Len(s)), sep)

\* s.split(" ")
SplitSpaces(s) == SplitBy(s, " ")

\* s.split(" ").join("")
StripSpaces(s) == Concat(SplitSpaces(s))

RECURSIVE TrimLeft(_)
TrimLeft(s) ==
    IF s # << >> /\ IsSpace(Head(s)) THEN TrimLeft(Tail(s)) ELSE s

RECURSIVE TrimRight(_)
TrimRight(s) ==
    IF s # << >> /\ IsSpace(s[Len(s)]) THEN TrimRight(SubSeq(s, 1, Len(s) - 1)) ELSE s

\* String.prototype.trim
Trim(s) == TrimRight(TrimLeft(s))

\* s.indexOf(" ") === -1
HasNoBlank(s) == \A i \in 1..Len(s) : s[i] # " "

RECURSIVE NatToText(_)
\* the decimal digits of a natural number
NatToText(n) ==
    IF n < 10 THEN << DigitChars[n + 1] >>
    ELSE NatToText(n \div 10) \o << DigitChars[(n % 10) + 1] >>

\* ------------------------------------------------------- JavaScript values

Undefined == [ t |-> "undefined" ]

\* a string value
Str(s) == [ t |-> "string", v |-> s ]

\* NaN
NaN == [ t |-> "nan" ]

\* a number; coordinates and quantities are held in thousandths
Num(n) == [ t |-> "number", v |-> n ]

\* truthiness of a value (numbers: neither 0 nor NaN; strings: not empty)
Truthy(x) ==
    CASE x.t = "undefined" -> FALSE
      [] x.t = "null"      -> FALSE
      [] x.t = "nan"       -> FALSE
      [] x.t = "number"    -> x.v # 0
      [] x.t = "string"    -> x.v # << >>
      [] OTHER             -> TRUE

RECURSIVE DigitsValue(_)
\* the number a text of decimal digits denotes
DigitsValue(s) ==
    IF s = << >> THEN 0
    ELSE 10 * DigitsValue(SubSeq(s, 1, Len(s) - 1)) + (IndexOfChar(s[Len(s)], DigitChars) - 1)

\* the number Infinity
Infinity == [ t |-> "infinity" ]

Text_Infinity == << "I", "n", "f", "i", "n", "i", "t", "y" >>

\* Number(x): undefined and non-numeric text give NaN, blank text gives 0,
\* the text Infinity gives Infinity
ToNumber(x) ==
    CASE x.t = "number" -> x
      [] x.t = "infinity" -> x
      [] x.t = "string" ->
            IF Trim(x.v) = << >> THEN Num(0)
            ELSE IF Trim(x.v) = Text_Infinity THEN Infinity
            ELSE IF \A i \in 1..Len(x.v) : IsDigit(x.v[i]) THEN Num(1000 * DigitsValue(x.v))
            ELSE NaN
      [] OTHER -> NaN

\* x || 0 for a number x
OrZero(x) == IF Truthy(x) THEN x.v ELSE 0

Abs(n) == IF n < 0 THEN -n ELSE n

\* Number.prototype.toFixed(2) of n thousandths: the sign of n, then the
\* magnitude rounded to hundredths.  (A magnitude ending in 5 thousandths is
\* rounded by its binary value; the inputs drawn here never end in 5.)
toFixed2(n) ==
    LET h == (Abs(n) + 5) \div 10
    IN  (IF n < 0 THEN << "-" >> ELSE << >>)
          \o NatToText(h \div 100)
          \o << ".", DigitChars[((h \div 10) % 10) + 1], DigitChars[(h % 10) + 1] >>

\* ------------------------------------------------------------ locateStore

\* lat = (Number(lat) || 0).toFixed(2), and the same for lon
FixedCoord(x) ==
    IF ToNumber(x) = Infinity THEN Text_Infinity ELSE toFixed2(OrZero(ToNumber(x)))

\* no filter, and an absent field taken as the empty string
FilterDefined_AsEmpty(list) ==
    [ i \in 1..Len(list) |-> IF list[i].t = "undefined" THEN Str(<< >>) ELSE list[i] ]

RECURSIVE FilterDefined(_)
\* list.filter(v => v !== undefined)
FilterDefined(list) ==
    IF list = << >> THEN << >>
    ELSE (IF Head(list).t = "undefined" THEN << >> ELSE << Head(list) >>)
           \o FilterDefined(Tail(list))

\* String(v) of a field of the key: the text itself, or the elements of an
\* array joined by commas
ToText(x) == IF x.t = "array" THEN Join(x.v, << "," >>) ELSE x.v

\* the key without the .map(v => String(v).toLowerCase())
LocateCacheKey_CaseKept(a) ==
    LET fields == FilterDefined(<< Str(FixedCoord(a.lat)), Str(FixedCoord(a.lon)),
                                   a.city, a.postcode >>)
    IN  << "n", "e", "a", "r", ":" >> \o Join([ i \in 1..Len(fields) |-> ToText(fields[i]) ], << "," >>)

\* `near:${[ lat, lon, city, postcode ].filter(...).map(...).join(",")}`
LocateCacheKey(a) ==
    LET fields == FilterDefined(<< Str(FixedCoord(a.lat)), Str(FixedCoord(a.lon)),
                                   a.city, a.postcode >>)
        lowered == [ i \in 1..Len(fields) |-> toLowerCase(ToText(fields[i])) ]
    IN  << "n", "e", "a", "r", ":" >> \o Join(lowered, << "," >>)

\* postcode.split(" ") of a postcode that is not a string (a query parameter
\* given twice is an array): a TypeError thrown while the request body is built
LocateThrows(a) == Truthy(a.postcode) /\ a.postcode.t # "string"

\* the fields interpolated into _sRequestJSON
LocateRequest(a) ==
    [ Town      |-> IF Truthy(a.city) THEN a.city.v ELSE << >>,
      PostCode  |-> IF Truthy(a.postcode)
                    THEN toUpperCase(StripSpaces(a.postcode.v)) ELSE << >>,
      Latitude  |-> FixedCoord(a.lat),
      Longitude |-> FixedCoord(a.lon) ]

\* ---------------------------------------------------- promises and errors

Null == [ t |-> "null" ]

\* a fulfilled promise
Resolved(v) == [ ok |-> TRUE, value |-> v ]

\* a rejected promise
Rejected(e) == [ ok |-> FALSE, error |-> e ]

\* new HttpError(message, statusCode)
HttpError(message, statusCode) ==
    [ name |-> "HttpError", message |-> message, statusCode |-> [ t |-> "number", v |-> statusCode ] ]

\* new Error(message), and the errors the runtime throws: no statusCode
PlainError(name, message) ==
    [ name |-> name, message |-> message, statusCode |-> Undefined ]

\* a route's .then / .catch pair: res.json({ ok: true, result }) or
\* res.status(err.statusCode || 500).json({ ok: false, result: err.message })
Envelope(p) ==
    IF p.ok THEN [ status |-> 200, ok |-> TRUE, result |-> p.value ]
    ELSE [ status |-> IF Truthy(p.error.statusCode) THEN p.error.statusCode.v ELSE 500,
           ok     |-> FALSE,
           result |-> p.error.message ]

\* an exception thrown by the controller before it has returned a promise
\* is not the .catch's: the route handler ends with it, and the response is
\* the framework's error page, not the route's envelope
Unhandled(e) == [ status |-> 500, page |-> e.message ]

\* ------------------------------------------- locateStore: the reply chain

\* .then(({ data }) => JSON.parse(data.d)); a rejected request passes through
LocateDecode(reply) ==
    IF reply.kind = "error" THEN Rejected(reply.error)
    ELSE IF reply.d.t = "malformed"
    THEN Rejected(PlainError("SyntaxError", "Unexpected token < in JSON at position 0"))
    ELSE Resolved(reply.d)

\* return Stores[0] without the test of the upstream's error message
LocateFirstStore_NoCheck(payload) ==
    IF payload.Stores.t = "null"
    THEN Rejected(PlainError("TypeError", "Cannot read property '0' of null"))
    ELSE IF payload.Stores.v = << >> THEN Resolved(Undefined)
    ELSE Resolved(payload.Stores.v[1])

\* .then(({ Stores, ErrorMsg }) => { if (Stores === null && ErrorMsg) throw ...; return Stores[0] })
LocateFirstStore(payload) ==
    IF payload.Stores.t = "null" /\ payload.ErrorMsg # ""
    THEN Rejected(HttpError(payload.ErrorMsg, 400))
    ELSE IF payload.Stores.t = "null"
    THEN Rejected(PlainError("TypeError", "Cannot read property '0' of null"))
    ELSE IF payload.Stores.v = << >> THEN Resolved(Undefined)
    ELSE Resolved(payload.Stores.v[1])

\* word => `${word[0].toUpperCase()}${word.substr(1)}`
Capitalise(word) == << ToUpperChar(word[1]) >> \o SubstrFrom(word, 1)

\* DisplayLine1.toLowerCase().split(" ").map(...).join(" ")
TitleCase(s) ==
    LET words == SplitSpaces(toLowerCase(s))
    IN  Join([ i \in 1..Len(words) |-> Capitalise(words[i]) ], << " " >>)

\* .then(data => ({ storeName, storeId, storeAddress, storePhone }))
LocateBuildStore(data) ==
    IF data.t = "undefined"
    THEN Rejected(PlainError("TypeError", "Cannot read property 'DisplayLine1' of undefined"))
    ELSE IF \E w \in Range(SplitSpaces(data.DisplayLine1)) : w = << >>
    THEN Rejected(PlainError("TypeError", "Cannot read property 'toUpperCase' of undefined"))
    ELSE Resolved([ storeName    |-> TitleCase(data.DisplayLine1),
                    storeId      |-> data.Key,
                    storeAddress |-> data.Property \o << ",", " " >> \o data.Street
                                       \o << ",", " " >> \o data.PostCode,
                    storePhone   |-> StripSpaces(data.Telephone) ])

\* the chain of lines 100-116 on one upstream reply: the Store, or the error
\* (a .then callback runs on a fulfilled promise, a rejection passes through)
LocateParsed(reply) ==
    LET decoded == LocateDecode(reply)
        first   == IF decoded.ok THEN LocateFirstStore(decoded.value) ELSE decoded
    IN  IF first.ok THEN LocateBuildStore(first.value) ELSE first

\* --------------------------------------------------------- checkStoreStock

\* Math.max(1, quantity) of the route: NaN unless quantity converts to a number
MaxWithOne(q) ==
    LET n == ToNumber(q)
    IN  IF n.t \in { "nan", "infinity" } THEN n ELSE IF n.v < 1000 THEN Num(1000) ELSE n

\* Math.floor of a number held in thousandths
Floor(n) == IF n.t \in { "nan", "infinity" } THEN n ELSE Num(1000 * (n.v \div 1000))

\* quantity = Math.floor(Math.max(1, quantity)) in the route
RouteQuantity(q) == Floor(MaxWithOne(q))

\* the default parameter quantity = 1, then `${quantity || 1}`: the text put
\* into the request (of a number, its whole units)
SentQuantity(q) ==
    LET given == IF q.t = "undefined" THEN Num(1000) ELSE q
    IN  IF ~Truthy(given) THEN << "1" >>
        ELSE IF given = Infinity THEN Text_Infinity
        ELSE (IF given.v < 0 THEN << "-" >> ELSE << >>) \o NatToText(Abs(given.v) \div 1000)

\* the arguments the stock route hands to checkStoreStock
StockRouteArgs(params, query) ==
    [ storeId   |-> params.storeId,
      styleCode |-> SubstrTo(params.styleCode, 5),
      size      |-> SubstrLast(params.styleCode, 3),
      quantity  |-> RouteQuantity(query.quantity) ]

\* the values interpolated into the body of StoreStockAjaxRequest
StockRequest(a) ==
    [ CCStoreNo  |-> a.storeId,
      SizeId     |-> a.styleCode \o a.size,
      Qty        |-> SentQuantity(a.quantity),
      hasStockInWH |-> "true",
      Action     |-> "getStoreStock" ]

\* .then(({ data }) => JSON.parse(data.d.data)); a rejected request passes through
StockDecode(reply) ==
    IF reply.kind = "error" THEN Rejected(reply.error)
    ELSE IF reply.d.t = "malformed"
    THEN Rejected(PlainError("SyntaxError", "Unexpected token < in JSON at position 0"))
    ELSE Resolved(reply.d)

\* the missing field reported as a not-found HttpError
StockConfirm_NotFound(data) ==
    IF Truthy(data.prod_sNo_Stock) THEN Resolved(data.prod_sNo_Stock)
    ELSE Rejected(HttpError("Product unavailable", 404))

\* .then(data => { if (data._prod_sNo_Stock) return data._prod_sNo_Stock; throw ... })
StockConfirm(data) ==
    IF Truthy(data.prod_sNo_Stock) THEN Resolved(data.prod_sNo_Stock)
    ELSE Rejected(PlainError("Error", "Product unavailable"))

\* .then(data => ({ inStock, storeName, storeId, storeAddress }))
StockBuildResult(data) ==
    Resolved([ inStock      |-> data.HasStock,
               storeName    |-> data.StoreName,
               storeId      |-> data.StoreNo,
               storeAddress |-> data.StoreAddress ])

\* the chain of lines 168-185 on one upstream reply
StockParsed(reply) ==
    LET decoded   == StockDecode(reply)
        confirmed == IF decoded.ok THEN StockConfirm(decoded.value) ELSE decoded
    IN  IF confirmed.ok THEN StockBuildResult(confirmed.value) ELSE confirmed

\* --------------------------------------------------------- abbreviateOffer

RECURSIVE DropLetters_UpperOnly(_)
\* only the upper-case letters removed: s.replace(/[A-Z]/g, "")
DropLetters_UpperOnly(s) ==
    IF s = << >> THEN << >>
    ELSE (IF IsUpper(Head(s)) THEN << >> ELSE << Head(s) >>) \o DropLetters_UpperOnly(Tail(s))

RECURSIVE DropLetters(_)
\* s.replace(/[A-Z]/gi, "")
DropLetters(s) ==
    IF s = << >> THEN << >>
    ELSE (IF IsLetter(Head(s)) THEN << >> ELSE << Head(s) >>) \o DropLetters(Tail(s))

RECURSIVE NonEmpty(_)
\* words.filter(word => word.length)
NonEmpty(words) ==
    IF words = << >> THEN << >>
    ELSE (IF Head(words) = << >> THEN << >> ELSE << Head(words) >>) \o NonEmpty(Tail(words))

\* every word abbreviated alike, "for" too
AbbreviateWord_NoFor(word) ==
    << ToUpperChar(word[1]) >> \o DropLetters(SubstrFrom(word, 1))

\* word => word.toLowerCase() === "for" ? "-4-" : `${word[0].toUpperCase()}${...}`
AbbreviateWord(word) ==
    IF toLowerCase(word) = << "f", "o", "r" >> THEN << "-", "4", "-" >>
    ELSE << ToUpperChar(word[1]) >> \o DropLetters(SubstrFrom(word, 1))

abbreviateOffer(offer) ==
    IF HasNoBlank(Trim(offer)) THEN toUpperCase(offer)
    ELSE LET words == NonEmpty(SplitBy(offer, "nonalnum"))
         IN  Concat([ i \in 1..Len(words) |-> AbbreviateWord(words[i]) ])

\* ---------------------------------------------------------- getProductInfo

ignoredOffers ==
    << << "m", "e", "m", "o", "r", "y", " ", "f", "o", "a", "m" >> >>

\* the time a cached page stays fresh: fetchWebpage(..., 6e4)
PageTTL == 60000

\* the last three characters taken off any code longer than five
BaseStyle_Over5(styleCode) ==
    IF Len(styleCode) > 5 THEN SubstrTo(styleCode, Len(styleCode) - 3) ELSE styleCode

\* if (styleCode.length - 3 >= 5) styleCode = styleCode.substr(0, styleCode.length - 3)
BaseStyle(styleCode) ==
    IF Len(styleCode) - 3 >= 5 THEN SubstrTo(styleCode, Len(styleCode) - 3) ELSE styleCode

\* `/Products/Product-${styleCode}`
ProductPath(styleCode) ==
    << "/", "P", "r", "o", "d", "u", "c", "t", "s", "/",
       "P", "r", "o", "d", "u", "c", "t", "-" >> \o BaseStyle(styleCode)

\* the key with the path as given
PageCacheKey_CaseKept(pathname) ==
    << "p", "a", "g", "e", "@", "s", "z", ":" >> \o pathname

\* `page@sz:${pathname.toLowerCase()}`
PageCacheKey(pathname) ==
    << "p", "a", "g", "e", "@", "s", "z", ":" >> \o toLowerCase(pathname)

RECURSIVE KeepOffers_Containing(_)
\* an offer dropped as soon as its name contains an ignored entry
KeepOffers_Containing(offers) ==
    IF offers = << >> THEN << >>
    ELSE LET name == toLowerCase(Head(offers).name)
         IN  (IF \E e \in Range(ignoredOffers) :
                    \E i \in 0..(Len(name) - Len(e)) : SubSeq(name, i + 1, i + Len(e)) = e
              THEN << >> ELSE << Head(offers) >>) \o KeepOffers_Containing(Tail(offers))

RECURSIVE KeepOffers(_)
\* offers.filter(({ name }) => !ignoredOffers.includes(name.toLowerCase()))
KeepOffers(offers) ==
    IF offers = << >> THEN << >>
    ELSE (IF toLowerCase(Head(offers).name) \in Range(ignoredOffers)
          THEN << >> ELSE << Head(offers) >>) \o KeepOffers(Tail(offers))

\* offer => ({ name, image, abbr })
ParseOffer(badge) ==
    [ name  |-> Trim(badge.title),
      image |-> badge.img.v,
      abbr  |-> abbreviateOffer(badge.title) ]

\* size => ({ size, stock: { warehouse }, code })
ParseSize(li) ==
    [ size  |-> toUpperCase(Trim(li.text)),
      stock |-> [ warehouse |-> li.qty ],
      code  |-> SubstrLast(Trim(li.id), 3) ]

\* some selector the scraper dereferences matches nothing in the document
MarkupMismatch(dom) ==
    \/ \E f \in { "sku", "name", "price", "currency", "thumbnail" } : dom[f].t = "undefined"
    \/ \E i \in 1..Len(dom.offers) : dom.offers[i].img.t = "undefined"

\* the Product scraped from a document (lines 317-383), or the TypeError of
\* reading a property of a null querySelector result
ParseProduct(dom) ==
    IF MarkupMismatch(dom)
    THEN Rejected(PlainError("TypeError", "Cannot read property 'textContent' of null"))
    ELSE Resolved(
           [ id         |-> dom.sku.v,
             name       |-> Trim(dom.name.v),
             price      |-> [ current |-> dom.price.v ],
             currency   |-> toUpperCase(Trim(dom.currency.v)),
             thumbnail  |-> dom.thumbnail.v,
             categories |-> [ i \in 1..Len(dom.crumbs) |-> Trim(dom.crumbs[i]) ],
             sizeRange  |-> [ i \in 1..Len(dom.sizes) |-> ParseSize(dom.sizes[i]) ],
             offers     |-> KeepOffers([ i \in 1..Len(dom.offers) |-> ParseOffer(dom.offers[i]) ]) ])

\* ------------------------------------------------------------------ state

VARIABLES
    now,           \* Date.now(), in ms
    locator,       \* cache.locator: cache key -> Store
    locatorFile,   \* the store-locator cache file as last saved
    products,      \* cache.products: cache key -> { timestamp, value }
    productsFile,  \* the product cache file as last saved
    pending,       \* bag of the upstream calls awaiting their reply: what the
                   \* callback waiting for each closes over
    out,           \* what the last callback wrote to the network (a request
                   \* upstream or a response to the caller), until it is sent
    probe          \* arguments and results of controller functions applied
                   \* on their own, outside any request

vars == << now, locator, locatorFile, products, productsFile, pending, out, probe >>

\* cache.getKey(key) finds an entry
HasKey(cache, key) == key \in DOMAIN cache

\* a setKey that keeps an entry already present (no overwrite)
SetKey_KeepFirst(cache, key, value) ==
    [ k \in (DOMAIN cache) \cup { key } |-> IF k \in DOMAIN cache THEN cache[k] ELSE value ]

\* cache.setKey(key, value): overwrites, keeps every other entry
SetKey(cache, key, value) ==
    [ k \in (DOMAIN cache) \cup { key } |-> IF k = key THEN value ELSE cache[k] ]

EmptyCache == [ k \in { } |-> Null ]

NoOutput == [ to |-> "nobody" ]

\* a request posted upstream while serving the call (the route's input)
ToUpstream(op, call, request) ==
    [ to |-> "upstream", op |-> op, call |-> call, request |-> request ]

\* a response to the caller: a cache hit answers the call at once (hit), any
\* other response is built from the upstream reply
ToCaller(op, call, cacheKey, hit, reply, res) ==
    [ to |-> "caller", op |-> op, call |-> call, cacheKey |-> cacheKey, hit |-> hit,
      reply |-> reply, res |-> res ]

NoReply == [ kind |-> "none" ]

NoCall == [ t |-> "none" ]

ProbeOff == [ pc |-> "off" ]

\* ----------------------------------------------------------------- inputs

Text_GL1 == << "G", "L", "1" >>

Text_gl1 == << "g", "l", "1" >>

\* the query strings of GET /locate (req.query): coordinates in thousandths;
\* the last one gives postcode twice, which req.query holds as an array
LocateQueries ==
    { [ lat |-> Num(51501), lon |-> Num(-104), city |-> Undefined, postcode |-> Undefined ],
      [ lat |-> Num(51499), lon |-> Num(-100), city |-> Str(<< >>), postcode |-> Str(<< >>) ],
      [ lat |-> Undefined, lon |-> Undefined, city |-> Undefined, postcode |-> Str(Text_GL1) ],
      [ lat |-> Undefined, lon |-> Undefined, city |-> Undefined, postcode |-> Str(Text_gl1) ],
      [ lat |-> Undefined, lon |-> Undefined, city |-> Str(<< "G", "l", "1" >>), postcode |-> Undefined ],
      [ lat |-> Undefined, lon |-> Undefined, city |-> Undefined,
        postcode |-> [ t |-> "array", v |-> << Text_GL1, Text_gl1 >> ] ] }

\* entries of the upstream's Stores array
RawStoreA ==
    [ t |-> "object", DisplayLine1 |-> << "K", "I", "N", "G", "S", " ", "s", "q" >>, Key |-> 1649,
      Property |-> << "U", "4" >>, Street |-> << "H", "i", "g", "h" >>,
      PostCode |-> << "G", "L", "1" >>, Telephone |-> << "0", "1", " ", "2", "3" >> ]

RawStoreB ==
    [ t |-> "object", DisplayLine1 |-> << "Q", "U", "A", "Y", "S" >>, Key |-> 2210,
      Property |-> << "U", "9" >>, Street |-> << "D", "o", "c", "k" >>,
      PostCode |-> << "G", "L", "2" >>, Telephone |-> << "0", "4", "5" >> ]

\* a display name with two spaces in a row: split(" ") yields an empty word
RawStoreBlank ==
    [ RawStoreB EXCEPT !.DisplayLine1 = << "Q", " ", " ", "S" >> ]

UpstreamMessages == { "", "No stores found" }

\* what axios rejects with: an Error that has no statusCode property
AxiosError == PlainError("Error", "Network Error")

\* the outcomes of the POST to FindRequestedStores
LocateReplies ==
    { [ kind |-> "error", error |-> AxiosError ],
      [ kind |-> "body", d |-> [ t |-> "malformed" ] ] }
    \cup { [ kind |-> "body", d |-> [ t |-> "object", Stores |-> st, ErrorMsg |-> m ] ] :
             st \in { Null, [ t |-> "array", v |-> << >> ] }, m \in UpstreamMessages }
    \cup { [ kind |-> "body", d |-> [ t |-> "object", Stores |-> [ t |-> "array", v |-> v ],
                                      ErrorMsg |-> "" ] ] :
             v \in { << RawStoreA >>, << RawStoreB, RawStoreA >>, << RawStoreBlank >> } }

\* GET /stock/:storeId/:styleCode?quantity=: req.params and req.query
StockCalls ==
    { [ params |-> [ storeId |-> 1649,
                     styleCode |-> << "1", "5", "0", "7", "0", "0", "4", "0" >> ],
        query  |-> [ quantity |-> q ] ] : q \in { Undefined, Num(2700) } }

StockRecord ==
    [ t |-> "object", HasStock |-> TRUE, StoreName |-> "Kings Sq", StoreNo |-> 1649,
      StoreAddress |-> "U4, High, GL1" ]

\* the outcomes of the POST to StoreStockAjaxRequest
StockReplies ==
    { [ kind |-> "error", error |-> AxiosError ],
      [ kind |-> "body", d |-> [ t |-> "malformed" ] ] }
    \cup { [ kind |-> "body", d |-> [ t |-> "object", prod_sNo_Stock |-> f ] ] :
             f \in { Undefined, Null, Str(<< >>), StockRecord,
                     [ StockRecord EXCEPT !.HasStock = FALSE ] } }

\* the :styleCode of GET /product/:styleCode
StyleCodes ==
    { << "1", "5", "0", "7", "0" >>,
      << "1", "5", "0", "7", "0", "0", "4", "0" >> }

DomA ==
    [ sku |-> Num(15070), name |-> Str(<< " ", "B", "o", "o", "t", " " >>),
      price |-> Num(1499), currency |-> Str(<< "g", "b", "p" >>),
      thumbnail |-> Str(<< "a", ".", "j", "p", "g" >>),
      crumbs |-> << << "M", "e", "n", "s" >>, << " ", "B", "o", "o", "t", "s" >> >>,
      sizes |-> << [ text |-> << " ", "7", "h" >>, qty |-> 3,
                     id |-> << "1", "5", "0", "7", "0", "0", "4", "0" >> ] >>,
      offers |-> << [ title |-> << "M", "e", "m", "o", "r", "y", " ", "F", "o", "a", "m" >>,
                      img |-> Str(<< "m" >>) ],
                    [ title |-> << "2", " ", "F", "o", "r", " ", "£", "1", "0" >>,
                      img |-> Str(<< "o" >>) ] >> ]

DomB ==
    [ DomA EXCEPT !.price = Num(999),
                  !.offers = << [ title |-> << "S", "a", "v", "e" >>, img |-> Str(<< "s" >>) ] >> ]

\* a page whose layout changed: no [itemprop="name"] element
DomChanged == [ DomA EXCEPT !.name = Undefined ]

\* what JSDOM.fromURL rejects with: the request library's StatusCodeError
\* carries the upstream status, a connection error carries none
FetchErrors ==
    { PlainError("RequestError", "Error: connect ECONNREFUSED"),
      [ name |-> "StatusCodeError", message |-> "404 - Not Found",
        statusCode |-> [ t |-> "number", v |-> 404 ] ] }

\* the outcomes of JSDOM.fromURL
PageReplies ==
    { [ kind |-> "error", error |-> e ] : e \in FetchErrors }
    \cup { [ kind |-> "dom", dom |-> d ] : d \in { DomA, DomB, DomChanged } }

\* the steps by which the clock is seen to advance between two callbacks
ClockSteps == { PageTTL - 1, PageTTL }

\* ---------------------------------------------------------------- actions

Init ==
    /\ now = 1
    /\ locator = EmptyCache
    /\ locatorFile = EmptyCache
    /\ products = EmptyCache
    /\ productsFile = EmptyCache
    /\ pending = EmptyBag
    /\ out = NoOutput
    /\ probe = ProbeOff

\* room for one more request awaiting its upstream reply
CanIssue == BagCardinality(pending) < MaxInFlight

Issue(p) == pending' = pending (+) SetToBag({ p })

Settle(p) == pending' = pending (-) SetToBag({ p })

\* time passes
Tick(d) ==
    /\ out = NoOutput
    /\ now + d <= MaxNow
    /\ now' = now + d
    /\ UNCHANGED << locator, locatorFile, products, productsFile, pending, out, probe >>

\* what the last callback wrote leaves the server
Send ==
    /\ out # NoOutput
    /\ out' = NoOutput
    /\ UNCHANGED << now, locator, locatorFile, products, productsFile, pending, probe >>

\* GET /locate: the route calls locateStore, which answers from the cache or
\* posts the search upstream
LocateRoute(q) ==
    LET a        == [ city |-> q.city, postcode |-> q.postcode, lat |-> q.lat, lon |-> q.lon ]
        cacheKey == LocateCacheKey(a)
    IN  /\ out = NoOutput
        /\ IF HasKey(locator, cacheKey)
           THEN /\ out' = ToCaller("locate", q, cacheKey, TRUE, NoReply,
                                   Envelope(Resolved(locator[cacheKey])))
                /\ UNCHANGED pending
           ELSE IF LocateThrows(a)
           THEN /\ out' = ToCaller("locate", q, cacheKey, FALSE, NoReply,
                                   Unhandled(PlainError("TypeError",
                                                        "postcode.split is not a function")))
                /\ UNCHANGED pending
           ELSE /\ CanIssue
                /\ Issue([ op |-> "locate", cacheKey |-> cacheKey ])
                /\ out' = ToUpstream("locate", q, LocateRequest(a))
        /\ UNCHANGED << now, locator, locatorFile, products, productsFile, probe >>

\* a location search that is posted again when its request fails
LocateReply_Retry(p, reply) ==
    LET parsed == LocateParsed(reply)
    IN  /\ out = NoOutput
        /\ p \in BagToSet(pending) /\ p.op = "locate"
        /\ IF reply.kind = "error"
           THEN /\ out' = ToUpstream("locate", NoCall, NoReply)
                /\ UNCHANGED << pending, locator, locatorFile >>
           ELSE /\ Settle(p)
                /\ IF parsed.ok
                   THEN /\ locator' = SetKey(locator, p.cacheKey, parsed.value)
                        /\ locatorFile' = locator'
                   ELSE UNCHANGED << locator, locatorFile >>
                /\ out' = ToCaller("locate", NoCall, p.cacheKey, FALSE, reply, Envelope(parsed))
        /\ UNCHANGED << now, products, productsFile, probe >>

\* the reply to a location search arrives: lines 100-122, then the route's
\* .then / .catch
LocateReply(p, reply) ==
    LET parsed == LocateParsed(reply)
    IN  /\ out = NoOutput
        /\ p \in BagToSet(pending) /\ p.op = "locate"
        /\ Settle(p)
        /\ IF parsed.ok
           THEN /\ locator' = SetKey(locator, p.cacheKey, parsed.value)
                /\ locatorFile' = locator'
           ELSE UNCHANGED << locator, locatorFile >>
        /\ out' = ToCaller("locate", NoCall, p.cacheKey, FALSE, reply, Envelope(parsed))
        /\ UNCHANGED << now, products, productsFile, probe >>

\* GET /stock/:storeId/:styleCode: the route calls checkStoreStock, which
\* posts the stock check upstream
StockRoute(c) ==
    /\ out = NoOutput
    /\ CanIssue
    /\ Issue([ op |-> "stock" ])
    /\ out' = ToUpstream("stock", c, StockRequest(StockRouteArgs(c.params, c.query)))
    /\ UNCHANGED << now, locator, locatorFile, products, productsFile, probe >>

\* a stock reply that is also kept in the product cache
StockReply_Cached(p, reply) ==
    /\ out = NoOutput
    /\ p \in BagToSet(pending) /\ p.op = "stock"
    /\ Settle(p)
    /\ out' = ToCaller("stock", NoCall, << >>, FALSE, reply, Envelope(StockParsed(reply)))
    /\ products' = SetKey(products, << "s", "t", "o", "c", "k" >>,
                          [ timestamp |-> now, value |-> StockParsed(reply) ])
    /\ productsFile' = products'
    /\ UNCHANGED << now, locator, locatorFile, probe >>

\* the reply to a stock check arrives: lines 168-185, then the route's
\* .then / .catch
StockReply(p, reply) ==
    /\ out = NoOutput
    /\ p \in BagToSet(pending) /\ p.op = "stock"
    /\ Settle(p)
    /\ out' = ToCaller("stock", NoCall, << >>, FALSE, reply, Envelope(StockParsed(reply)))
    /\ UNCHANGED << now, locator, locatorFile, products, productsFile, probe >>

\* the freshness test without the age comparison: an entry never expires
PageIsFresh_NoExpiry(cacheKey, cacheTTL) ==
    /\ HasKey(products, cacheKey)
    /\ products[cacheKey].timestamp # 0

\* if (cachedValue && cachedValue.timestamp && (Date.now() - cachedValue.timestamp < cacheTTL))
PageIsFresh(cacheKey, cacheTTL) ==
    /\ HasKey(products, cacheKey)
    /\ products[cacheKey].timestamp # 0
    /\ now - products[cacheKey].timestamp < cacheTTL

\* GET /product/:styleCode: the route calls getProductInfo, whose
\* fetchWebpage answers from the cache or fetches the page
ProductRoute(styleCode) ==
    LET pathname == ProductPath(styleCode)
        cacheTTL == PageTTL
        cacheKey == PageCacheKey(pathname)
    IN  /\ out = NoOutput
        /\ IF cacheTTL # 0 /\ PageIsFresh(cacheKey, cacheTTL)
           THEN /\ out' = ToCaller("product", styleCode, cacheKey, TRUE, NoReply,
                                   Envelope(Resolved(products[cacheKey].value)))
                /\ UNCHANGED pending
           ELSE /\ CanIssue
                /\ Issue([ op |-> "product", cacheKey |-> cacheKey, cacheTTL |-> cacheTTL ])
                /\ out' = ToUpstream("product", styleCode, pathname)
        /\ UNCHANGED << now, locator, locatorFile, products, productsFile, probe >>

\* a page that is stored only when no fresh entry is there yet
ProductReply_FirstWins(p, reply) ==
    LET parsed == IF reply.kind = "error" THEN Rejected(reply.error)
                  ELSE ParseProduct(reply.dom)
    IN  /\ out = NoOutput
        /\ p \in BagToSet(pending) /\ p.op = "product"
        /\ Settle(p)
        /\ IF parsed.ok /\ p.cacheTTL # 0 /\ ~PageIsFresh(p.cacheKey, p.cacheTTL)
           THEN /\ products' = SetKey(products, p.cacheKey,
                                      [ timestamp |-> now, value |-> parsed.value ])
                /\ productsFile' = products'
           ELSE UNCHANGED << products, productsFile >>
        /\ out' = ToCaller("product", NoCall, p.cacheKey, FALSE, reply, Envelope(parsed))
        /\ UNCHANGED << now, locator, locatorFile, probe >>

\* the page arrives: the callback of line 313 parses it and calls setCache,
\* then the route's .then / .catch
ProductReply(p, reply) ==
    LET parsed == IF reply.kind = "error" THEN Rejected(reply.error)
                  ELSE ParseProduct(reply.dom)
    IN  /\ out = NoOutput
        /\ p \in BagToSet(pending) /\ p.op = "product"
        /\ Settle(p)
        /\ IF parsed.ok /\ p.cacheTTL # 0
           THEN /\ products' = SetKey(products, p.cacheKey,
                                      [ timestamp |-> now, value |-> parsed.value ])
                /\ productsFile' = products'
           ELSE UNCHANGED << products, productsFile >>
        /\ out' = ToCaller("product", NoCall, p.cacheKey, FALSE, reply, Envelope(parsed))
        /\ UNCHANGED << now, locator, locatorFile, probe >>

Next ==
    \/ \E d \in ClockSteps : Tick(d)
    \/ Send
    \/ \E q \in LocateQueries : LocateRoute(q)
    \/ \E p \in BagToSet(pending), reply \in LocateReplies : LocateReply(p, reply)
    \/ \E c \in StockCalls : StockRoute(c)
    \/ \E p \in BagToSet(pending), reply \in StockReplies : StockReply(p, reply)
    \/ \E styleCode \in StyleCodes : ProductRoute(styleCode)
    \/ \E p \in BagToSet(pending), reply \in PageReplies : ProductReply(p, reply)

Spec == Init /\ [][Next]_vars

\* ------------------------------------------- locateStore's key, on its own

Text_x == << "x" >>

\* arguments of locateStore, two at a time: coordinates absent, zero, not a
\* number, or rounding to the same hundredth; texts absent, empty, differing
\* in letter case or in spaces only
KeyArguments ==
    [ lat      : { Undefined, Num(0), Num(51501), Num(51499) },
      lon      : { Undefined, Str(Text_x), Num(-104) },
      city     : { Undefined, Str(<< >>), Str(Text_x), Str(<< "X" >>) },
      postcode : { Undefined, Str(<< >>), Str(Text_x), Str(<< "X" >>),
                   Str(<< "x", " ", "x" >>), Str(<< "x", "x" >>) } ]

\* the pairs drawn: every first argument set against those that agree with it
\* on the coordinates, or on both texts
KeyPairs ==
    { pair \in KeyArguments \X KeyArguments :
        \/ pair[1].lat = pair[2].lat /\ pair[1].lon = pair[2].lon
        \/ pair[1].city = pair[2].city /\ pair[1].postcode = pair[2].postcode }

InitKey ==
    /\ now = 1
    /\ locator = EmptyCache
    /\ locatorFile = EmptyCache
    /\ products = EmptyCache
    /\ productsFile = EmptyCache
    /\ pending = EmptyBag
    /\ out = NoOutput
    /\ \E pair \in KeyPairs : probe = [ pc |-> "args", a |-> pair[1], b |-> pair[2] ]

\* the Store a first call would have cached
ProbeStore == LocateBuildStore(RawStoreA).value

\* lines 72-93 for both argument sets: each one's cache key and upstream
\* request, and whether the second call finds (line 77) what the first one,
\* alone on an empty cache, has stored (line 118)
KeyProbe ==
    /\ probe.pc = "args"
    /\ probe' = [ pc       |-> "keys",
                  a        |-> probe.a,
                  b        |-> probe.b,
                  keyA     |-> LocateCacheKey(probe.a),
                  keyB     |-> LocateCacheKey(probe.b),
                  requestA |-> LocateRequest(probe.a),
                  requestB |-> LocateRequest(probe.b),
                  hitB     |-> HasKey(SetKey(EmptyCache, LocateCacheKey(probe.a), ProbeStore),
                                      LocateCacheKey(probe.b)) ]
    /\ UNCHANGED << now, locator, locatorFile, products, productsFile, pending, out >>

NextKey == KeyProbe

SpecKey == InitKey /\ [][NextKey]_vars

\* ===================================================== claims: page cache

\* the product cache key of a style code, by the layout of the cache file
C1_Key(styleCode) == PageCacheKey(ProductPath(styleCode))

\* a page entry is present and younger than the 60000 ms page TTL
C1_WithinTTL(key) == key \in DOMAIN products /\ now - products[key].timestamp < 60000

\* a getProductInfo call while the entry is within its TTL: no upstream
\* fetch, and the answer is the cached Product
C1_HitWithinTTL ==
    \A styleCode \in StyleCodes :
        ProductRoute(styleCode) /\ C1_WithinTTL(C1_Key(styleCode))
        => /\ out'.to = "caller"
           /\ out'.res = [ status |-> 200, ok |-> TRUE,
                           result |-> products[C1_Key(styleCode)].value ]
           /\ pending' = pending

\* a getProductInfo call with no entry, or after the TTL has expired, fetches
\* the page from upstream
C1_FetchAfterExpiry ==
    \A styleCode \in StyleCodes :
        ProductRoute(styleCode) /\ ~C1_WithinTTL(C1_Key(styleCode))
        => /\ out'.to = "upstream"
           /\ out'.request = ProductPath(styleCode)
           /\ BagCardinality(pending') = BagCardinality(pending) + 1

\* the fetched page, once parsed, replaces the entry of its path: the Product
\* that is returned, stamped with the current time, in memory and on file
C1_Overwrite ==
    \A p \in BagToSet(pending), reply \in PageReplies :
        ProductReply(p, reply) /\ out'.res.ok
        => /\ products' = SetKey(products, p.cacheKey,
                                 [ timestamp |-> now, value |-> out'.res.result ])
           /\ out'.res.result = ParseProduct(reply.dom).value
           /\ productsFile' = products'

C2_WrittenBeforeReturn ==
    \A p \in BagToSet(pending), reply \in LocateReplies :
        LocateReply(p, reply) /\ out'.res.ok
        => /\ p.cacheKey \in DOMAIN locator'
           /\ locator'[p.cacheKey] = out'.res.result
           /\ locatorFile' = locator'

\* a locateStore call whose key has an entry is answered with the stored
\* Store and posts nothing upstream, whatever the time
C2_HitWithoutUpstream ==
    \A q \in LocateQueries :
        LocateRoute(q) /\ LocateCacheKey(q) \in DOMAIN locator
        => /\ out'.to = "caller"
           /\ out'.res = [ status |-> 200, ok |-> TRUE, result |-> locator[LocateCacheKey(q)] ]
           /\ pending' = pending

\* an entry, once written, keeps its Store for ever
C2_EntryKept ==
    \A k \in DOMAIN locator : k \in DOMAIN locator' /\ locator'[k] = locator[k]

\* an entry is never removed, and its Store changes only when a locateStore
\* call for the same key, in flight since before the entry existed, completes
C2_EntryKeptUnlessInFlight ==
    \A k \in DOMAIN locator :
        /\ k \in DOMAIN locator'
        /\ locator'[k] # locator[k]
           => \E p \in BagToSet(pending) :
                 p.op = "locate" /\ p.cacheKey = k /\ pending' = pending (-) SetToBag({ p })

C3_SameLetters(x, y) ==
    /\ Len(x) = Len(y)
    /\ \A i \in 1..Len(x) :
          \/ x[i] = y[i]
          \/ \E n \in 1..26 : { x[i], y[i] } = { UpperLetters[n], LowerLetters[n] }

\* two optional texts that differ at most in letter case
C3_SameButCase(x, y) ==
    /\ x.t = y.t
    /\ x.t = "string" => C3_SameLetters(x.v, y.v)

\* two argument sets identical except for the letter case of city or postcode
C3_CaseVariants(a, b) ==
    /\ a.lat = b.lat /\ a.lon = b.lon
    /\ C3_SameButCase(a.city, b.city)
    /\ C3_SameButCase(a.postcode, b.postcode)

\* C3: two locateStore calls whose arguments are identical except for the
\* letter case of city or postcode compute the same cache key, so the
\* second call finds the entry the first one has written.
C3_CaseInsensitiveKey ==
    probe.pc = "keys" /\ C3_CaseVariants(probe.a, probe.b)
    => probe.keyA = probe.keyB /\ probe.hitB

\* C3 witness: postcode "x" against "X" and city "X" against "x", one key.
C3_Witness ==
    /\ probe.pc = "keys"
    /\ probe.a.postcode = Str(<< "x" >>) /\ probe.b.postcode = Str(<< "X" >>)
    /\ probe.a.city = Str(<< "X" >>) /\ probe.b.city = Str(<< "x" >>)
    /\ probe.keyA = probe.keyB /\ probe.hitB

\* C5 as stated: whenever two locateStore argument sets produce the same
\* upstream search request (same Town, same PostCode after removing spaces
\* and upper-casing, same rounded Latitude and Longitude, an absent field
\* counting as an empty one), they produce the same cache key.
C5_SameRequestSameKey ==
    probe.pc = "keys" /\ probe.requestA = probe.requestB
    => probe.keyA = probe.keyB

\* the key `near:51.50,-0.10`
C4_KeyPlain ==
    << "n", "e", "a", "r", ":", "5", "1", ".", "5", "0", ",", "-", "0", ".", "1", "0" >>

\* the key `near:51.50,-0.10,,`
C4_KeyCommas == C4_KeyPlain \o << ",", "," >>

\* lat and lon (thousandths) round to 51.50 and -0.10
C4_Rounds(q) ==
    /\ q.lat.t = "number" /\ 51495 < q.lat.v /\ q.lat.v < 51505
    /\ q.lon.t = "number" /\ -105 < q.lon.v /\ q.lon.v < -95

\* neither city nor postcode is supplied
C4_NoTexts(q) == q.city.t = "undefined" /\ q.postcode.t = "undefined"

\* city and postcode are supplied as empty strings
C4_EmptyTexts(q) == q.city = Str(<< >>) /\ q.postcode = Str(<< >>)

\* the call is answered from the entry under key when there is one, and goes
\* upstream when there is none
C4_ServedBy(key) ==
    /\ key \in DOMAIN locator
       => /\ out'.to = "caller"
          /\ out'.res = [ status |-> 200, ok |-> TRUE, result |-> locator[key] ]
          /\ pending' = pending
    /\ key \notin DOMAIN locator => out'.to = "upstream"

C6_StockStep == out = NoOutput /\ out'.to # "nobody" /\ out'.op = "stock"

\* C6: checkStoreStock never reads or writes either cache: a stock call
\* leaves both caches and their files as they were, always posts its own
\* upstream request (one more request in flight, whatever the caches hold
\* and whatever is already in flight), and its answer is built from that
\* request's reply alone.
C6_StockNeverCached ==
    [][ C6_StockStep
        => /\ UNCHANGED << locator, locatorFile, products, productsFile >>
           /\ \/ /\ out'.to = "upstream"
                 /\ BagCardinality(pending') = BagCardinality(pending) + 1
                 /\ out'.request = StockRequest(StockRouteArgs(out'.call.params, out'.call.query))
              \/ /\ out'.to = "caller"
                 /\ ~out'.hit
                 /\ out'.reply \in StockReplies
                 /\ BagCardinality(pending') = BagCardinality(pending) - 1
                 /\ out'.res = Envelope(StockParsed(out'.reply)) ]_vars

\* C6 witness: a second stock request goes upstream while an identical one
\* is still in flight and both caches hold entries.
C6_Witness ==
    /\ out.to = "upstream" /\ out.op = "stock"
    /\ CopiesIn([ op |-> "stock" ], pending) = 2
    /\ locator # EmptyCache
    /\ products # EmptyCache

\* C9: when the decoded stock payload lacks the confirming field (absent,
\* null or otherwise falsy) checkStoreStock fails with the plain Error
\* "Product unavailable", which has no status code, and the route answers
\* 500 { ok: false, result: "Product unavailable" }; when the field is
\* present the call resolves with the StockCheckResult built from it.
C9_ConfirmingField ==
    out.to = "caller" /\ out.op = "stock" /\ out.reply.kind = "body" /\ out.reply.d.t = "object"
    => LET f      == out.reply.d.prod_sNo_Stock
           parsed == StockParsed(out.reply)
       IN  IF f.t \in { "undefined", "null" } \/ f = Str(<< >>)
           THEN /\ ~parsed.ok
                /\ parsed.error.message = "Product unavailable"
                /\ parsed.error.statusCode = Undefined
                /\ out.res = [ status |-> 500, ok |-> FALSE, result |-> "Product unavailable" ]
           ELSE LET result == [ inStock      |-> f.HasStock,
                                storeName    |-> f.StoreName,
                                storeId      |-> f.StoreNo,
                                storeAddress |-> f.StoreAddress ]
                IN  /\ parsed = Resolved(result)
                    /\ out.res = [ status |-> 200, ok |-> TRUE, result |-> result ]

\* C9 witness: a stock payload without the confirming field is answered
\* with status 500 and "Product unavailable".
C9_Witness ==
    /\ out.to = "caller" /\ out.op = "stock"
    /\ out.reply.kind = "body" /\ out.reply.d.t = "object"
    /\ out.reply.d.prod_sNo_Stock = Undefined
    /\ out.res.status = 500 /\ out.res.result = "Product unavailable"

\* ------------------------------------- claims: locateStore without stores

\* the reply decodes to Stores = null with a non-empty ErrorMsg
C7_NullWithMessage(reply) ==
    /\ reply.kind = "body" /\ reply.d.t = "object"
    /\ reply.d.Stores.t = "null" /\ reply.d.ErrorMsg # ""

\* C7: when the upstream reply decodes to Stores = null with a non-empty
\* ErrorMsg, locateStore fails with an error of status code 400 whose
\* message is that ErrorMsg, and the locate route answers with status 400
\* and { ok: false, result: ErrorMsg }.
C7_NullStoresIs400 ==
    out.to = "caller" /\ out.op = "locate" /\ C7_NullWithMessage(out.reply)
    => LET failure == LocateParsed(out.reply)
       IN  /\ ~failure.ok
           /\ failure.error.statusCode = Num(400)
           /\ failure.error.message = out.reply.d.ErrorMsg
           /\ out.res = [ status |-> 400, ok |-> FALSE, result |-> out.reply.d.ErrorMsg ]

\* C7 witness: a reply with Stores = null and "No stores found" has been
\* answered with status 400.
C7_Witness ==
    /\ out.to = "caller" /\ out.op = "locate" /\ C7_NullWithMessage(out.reply)
    /\ out.res.status = 400 /\ out.res.result = "No stores found"

\* the reply reports no matching stores: Stores is null or an empty list
C8_NoStores(reply) ==
    /\ reply.kind = "body" /\ reply.d.t = "object"
    /\ \/ reply.d.Stores.t = "null"
       \/ reply.d.Stores.t = "array" /\ reply.d.Stores.v = << >>

\* C8: whenever the upstream reply reports no matching stores (Stores null
\* or empty, whatever the ErrorMsg) locateStore fails with status 400 and
\* the upstream's message, never with a default-status failure.
C8_NoStoresIs400 ==
    out.to = "caller" /\ out.op = "locate" /\ C8_NoStores(out.reply)
    => /\ out.res = [ status |-> 400, ok |-> FALSE, result |-> out.reply.d.ErrorMsg ]
       /\ LocateParsed(out.reply) = Rejected(HttpError(out.reply.d.ErrorMsg, 400))

\* -------------------------------------------------- claims: failure shape

\* the promise the controller hands to the route for the upstream reply
C10_Outcome(o) ==
    IF o.op = "locate" THEN LocateParsed(o.reply)
    ELSE IF o.op = "stock" THEN StockParsed(o.reply)
    ELSE IF o.reply.kind = "error" THEN Rejected(o.reply.error)
    ELSE ParseProduct(o.reply.dom)

\* a call has just failed: the controller threw, or its promise rejected
C10_Fails ==
    /\ out = NoOutput /\ out'.to = "caller" /\ ~out'.hit
    /\ out'.reply = NoReply \/ ~C10_Outcome(out').ok

\* C10: every failure of locateStore, checkStoreStock or getProductInfo
\* reaches the caller as a status code and a message string in
\* { ok: false, result: message }, with nothing else in the response, and
\* the failing call writes nothing to either cache.
C10_UniformFailure ==
    [][ C10_Fails
        => /\ DOMAIN out'.res = { "status", "ok", "result" }
           /\ out'.res.status \in 400..599
           /\ out'.res.ok = FALSE
           /\ out'.res.result \in STRING
           /\ UNCHANGED << locator, locatorFile, products, productsFile >> ]_vars

\* ------------------------------------------------------ claims: no retries

\* the status the route gives an error: its statusCode, or 500
C11_Status(e) == IF Truthy(e.statusCode) THEN e.statusCode.v ELSE 500

\* C11: no operation retries.  An upstream request is posted only by the
\* step that serves a new call, one request per call; the step that
\* receives a reply takes that request out of flight, posts nothing and
\* answers the caller; and when the request failed the answer is that
\* error: its message, and its status code or 500.
C11_NoRetry ==
    [][ /\ out'.to = "upstream"
           => /\ out = NoOutput /\ out'.call # NoCall
              /\ BagCardinality(pending') = BagCardinality(pending) + 1
        /\ BagCardinality(pending') > BagCardinality(pending) => out'.to = "upstream"
        /\ out = NoOutput /\ out'.to = "caller" /\ out'.reply # NoReply
           => /\ BagCardinality(pending') = BagCardinality(pending) - 1
              /\ pending' \sqsubseteq pending
              /\ out'.reply.kind = "error"
                 => out'.res = [ status |-> C11_Status(out'.reply.error), ok |-> FALSE,
                                 result |-> out'.reply.error.message ] ]_vars

\* C11 witness: a page fetch has failed with 404 and been answered so, and
\* nothing is in flight afterwards.
C11_Witness ==
    /\ out.to = "caller" /\ out.op = "product"
    /\ out.reply.kind = "error"
    /\ out.res = [ status |-> 404, ok |-> FALSE, result |-> "404 - Not Found" ]
    /\ pending = EmptyBag

\* ------------------------------------------- claims: concurrent same key

\* what a call for this key leaves in flight
C12_LocateRequest(q) == [ op |-> "locate", cacheKey |-> LocateCacheKey(q) ]

C12_PageRequest(styleCode) ==
    [ op |-> "product", cacheKey |-> C1_Key(styleCode), cacheTTL |-> 60000 ]

\* a call that finds no usable entry posts upstream, whether or not a
\* request for the same key is already in flight
C12_BothMiss ==
    /\ \A q \in LocateQueries :
         LocateRoute(q) /\ ~LocateThrows(q) /\ LocateCacheKey(q) \notin DOMAIN locator
         => /\ out'.to = "upstream"
            /\ CopiesIn(C12_LocateRequest(q), pending')
                 = CopiesIn(C12_LocateRequest(q), pending) + 1
    /\ \A styleCode \in StyleCodes :
         ProductRoute(styleCode) /\ ~C1_WithinTTL(C1_Key(styleCode))
         => /\ out'.to = "upstream"
            /\ CopiesIn(C12_PageRequest(styleCode), pending')
                 = CopiesIn(C12_PageRequest(styleCode), pending) + 1

\* cache' is cache with value under key, whatever was there
C12_Written(cache, cacheAfter, key, value) ==
    /\ DOMAIN cacheAfter = DOMAIN cache \cup { key }
    /\ cacheAfter[key] = value
    /\ \A k \in DOMAIN cache : k # key => cacheAfter[k] = cache[k]

\* every call that resolves from an upstream reply writes its own value
C12_BothWrite ==
    out = NoOutput /\ out'.to = "caller" /\ out'.reply # NoReply /\ out'.res.ok
    => /\ out'.op = "locate"
          => C12_Written(locator, locator', out'.cacheKey, out'.res.result)
       /\ out'.op = "product"
          => C12_Written(products, products', out'.cacheKey,
                         [ timestamp |-> now, value |-> out'.res.result ])

\* an entry changes only by such a write
C12_OnlyWritten ==
    /\ \A k \in DOMAIN locator' :
         \/ k \in DOMAIN locator /\ locator'[k] = locator[k]
         \/ /\ out'.to = "caller" /\ out'.op = "locate" /\ out'.reply # NoReply
            /\ out'.cacheKey = k /\ locator'[k] = out'.res.result
    /\ \A k \in DOMAIN products' :
         \/ k \in DOMAIN products /\ products'[k] = products[k]
         \/ /\ out'.to = "caller" /\ out'.op = "product" /\ out'.reply # NoReply
            /\ out'.cacheKey = k /\ products'[k].value = out'.res.result

\* C12: concurrent calls for one cache key are not coordinated: a call
\* that finds no usable entry posts upstream even while a request for the
\* same key is in flight, every call that resolves writes its value under
\* the key over whatever is there (the last write remains), and an entry
\* never holds anything but a value so written.
C12_Uncoordinated == [][ C12_BothMiss /\ C12_BothWrite /\ C12_OnlyWritten ]_vars

\* C12 witness: of two page requests for one key, one has resolved and
\* written a fresh entry while the other is still in flight.
C12_Witness ==
    /\ out.to = "caller" /\ out.op = "product" /\ out.reply # NoReply /\ out.res.ok
    /\ C1_WithinTTL(out.cacheKey)
    /\ products[out.cacheKey].value = out.res.result
    /\ CopiesIn([ op |-> "product", cacheKey |-> out.cacheKey, cacheTTL |-> 60000 ],
                pending) = 1

\* ------------------------------------ upstream calls that never return

\* the most upstream calls that never return
MaxHung == 1

\* the location queries drawn here: those without a city (two keys)
LiveQueries == { q \in LocateQueries : q.city = Undefined }

\* the requests a call can leave in flight
LiveRequests ==
    { [ op |-> "locate", cacheKey |-> LocateCacheKey(q) ] :
        q \in { x \in LiveQueries : ~LocateThrows(x) } }
    \cup { [ op |-> "stock" ] }
    \cup { [ op |-> "product", cacheKey |-> PageCacheKey(ProductPath(c)), cacheTTL |-> PageTTL ] :
             c \in StyleCodes }

InitLive ==
    /\ now = 1
    /\ locator = EmptyCache
    /\ locatorFile = EmptyCache
    /\ products = EmptyCache
    /\ productsFile = EmptyCache
    /\ pending = EmptyBag
    /\ out = NoOutput
    /\ probe = [ pc |-> "live", hung |-> EmptyBag ]

\* a reply only with nothing hung: replies delivered in the order of the
\* requests
Returns_InOrder(p) == CopiesIn(p, pending) > 0 /\ probe.hung = EmptyBag

\* the promise of a request is settled by that request's reply alone: it
\* can be while the upstream call is one of those that return
Returns(p) == CopiesIn(p, pending) > CopiesIn(p, probe.hung)

\* the upstream call of a request in flight turns out never to return: no
\* timeout is set on it, so its promise stays pending
Hang(p) ==
    /\ out = NoOutput
    /\ Returns(p)
    /\ BagCardinality(probe.hung) < MaxHung
    /\ probe' = [ probe EXCEPT !.hung = @ (+) SetToBag({ p }) ]
    /\ UNCHANGED << now, locator, locatorFile, products, productsFile, pending, out >>

\* the reply to request p arrives and its callbacks run
Reply(p) ==
    /\ Returns(p)
    /\ \/ \E reply \in LocateReplies : LocateReply(p, reply)
       \/ \E reply \in StockReplies : StockReply(p, reply)
       \/ \E reply \in PageReplies : ProductReply(p, reply)

NextLive ==
    \/ \E d \in ClockSteps : Tick(d)
    \/ Send
    \/ \E q \in LiveQueries : LocateRoute(q)
    \/ \E c \in StockCalls : StockRoute(c)
    \/ \E styleCode \in StyleCodes : ProductRoute(styleCode)
    \/ \E p \in LiveRequests : Hang(p)
    \/ \E p \in LiveRequests : Reply(p)

\* a response written is sent; a reply that can arrive does arrive and its
\* callback is run, however many other callbacks run in between
SpecLive ==
    /\ InitLive /\ [][NextLive]_vars
    /\ WF_vars(Send)
    /\ \A p \in LiveRequests : SF_vars(Reply(p))

\* ------------------------------------------- claims: independent calls

\* the call that left p in flight has been answered from its reply
C13_Answered(p) ==
    /\ out.to = "caller" /\ out.reply # NoReply /\ out.op = p.op
    /\ p.op # "stock" => out.cacheKey = p.cacheKey

\* request p is in flight and its upstream call is one that returns
C13_Returning(p) == CopiesIn(p, pending) > CopiesIn(p, probe.hung)

\* C13: calls proceed independently.  An upstream call that never returns
\* keeps its own request in flight for ever, and every request in flight
\* whose upstream call returns, issued before or after, is eventually
\* answered with a result or an error.
C13_Independent ==
    /\ [][ /\ probe.hung \sqsubseteq probe'.hung
           /\ probe'.hung \sqsubseteq pending' ]_vars
    /\ \A p \in LiveRequests :
         C13_Returning(p) ~> (C13_Answered(p) \/ ~C13_Returning(p))

\* C13 witness: a location search is answered from its reply while the
\* upstream call of a page fetch never returns.
C13_Witness ==
    /\ probe.pc = "live"
    /\ \E h \in LiveRequests : h.op = "product" /\ CopiesIn(h, probe.hung) = 1
    /\ out.to = "caller" /\ out.op = "locate" /\ out.reply # NoReply /\ out.res.ok

\* --------------------------------- getProductInfo's path, on its own

\* the longest style code drawn
MaxStyleLen == 9

\* style codes of every length up to MaxStyleLen
StyleInputs ==
    UNION { [ 1..n -> { "1", "5" } ] : n \in 0..MaxStyleLen }

InitStyle ==
    /\ now = 1
    /\ locator = EmptyCache
    /\ locatorFile = EmptyCache
    /\ products = EmptyCache
    /\ productsFile = EmptyCache
    /\ pending = EmptyBag
    /\ out = NoOutput
    /\ \E c \in StyleInputs : probe = [ pc |-> "style", styleCode |-> c ]

\* lines 307-313: the style code the page is asked for, and the page's path
StyleProbe ==
    /\ probe.pc = "style"
    /\ probe' = [ pc        |-> "path",
                  styleCode |-> probe.styleCode,
                  base      |-> BaseStyle(probe.styleCode),
                  pathname  |-> ProductPath(probe.styleCode) ]
    /\ UNCHANGED << now, locator, locatorFile, products, productsFile, pending, out >>

NextStyle == StyleProbe

SpecStyle == InitStyle /\ [][NextStyle]_vars

\* ------------------------------------------------- claims: style code

\* C14: getProductInfo strips the last 3 characters of the style code
\* before building the path exactly when the code's length minus 3 is at
\* least 5 (length 8 gives the first 5 characters, length 9 the first 6),
\* and leaves every code of length 7 or less unchanged.
C14_SizeCodeStripped ==
    probe.pc = "path"
    => LET c == probe.styleCode
           n == Len(probe.styleCode)
       IN  /\ n - 3 >= 5 => probe.base = SubSeq(c, 1, n - 3)
           /\ n <= 7 => probe.base = c
           /\ n = 8 => probe.base = SubSeq(c, 1, 5)
           /\ n = 9 => probe.base = SubSeq(c, 1, 6)
           /\ probe.base = c <=> n <= 7
           /\ probe.pathname = << "/", "P", "r", "o", "d", "u", "c", "t", "s", "/",
                                  "P", "r", "o", "d", "u", "c", "t", "-" >> \o probe.base

\* C14 witness: a code of length 8 has been cut to its first 5 characters.
C14_Witness ==
    /\ probe.pc = "path"
    /\ Len(probe.styleCode) = 8
    /\ probe.base = SubSeq(probe.styleCode, 1, 5)

\* ------------------------------------------ abbreviateOffer, on its own

\* the longest generated title
MaxOfferLen == 4

Text_BuyOneGetOneFree ==
    << "B", "u", "y", " ", "O", "n", "e", " ", "G", "e", "t", " ", "O", "n", "e", " ", "F", "r", "e", "e" >>

Text_Save == << "S", "a", "v", "e" >>

Text_2For10 == << "2", " ", "F", "o", "r", " ", "£", "1", "0" >>

\* titles of offer badges: those of the documentation, some with "for" in
\* other spellings and places, with blanks around and with a tab between
\* the words
OfferExamples ==
    { Text_BuyOneGetOneFree, Text_Save, Text_2For10,
      << "3", " ", "f", "O", "R", " ", "2" >>,
      << " ", "S", "a", "v", "e", " " >>,
      << "B", "u", "y", "\t", "O", "n", "e" >>,
      << "f", "o", "r", " ", "s", "a", "l", "e" >>,
      << "H", "a", "l", "f", " ", "P", "r", "i", "c", "e", "2", "D", "a", "y" >>,
      << "1", "0", "%", " ", "O", "f", "f" >> }

\* and every text of up to MaxOfferLen of these characters
OfferTexts ==
    UNION { [ 1..n -> { "a", "B", "1", " ", "\t", "-" } ] : n \in 0..MaxOfferLen }

InitOffer ==
    /\ now = 1
    /\ locator = EmptyCache
    /\ locatorFile = EmptyCache
    /\ products = EmptyCache
    /\ productsFile = EmptyCache
    /\ pending = EmptyBag
    /\ out = NoOutput
    /\ \E t \in OfferExamples \cup OfferTexts : probe = [ pc |-> "offer", offer |-> t ]

\* abbr: abbreviateOffer(offer.getAttribute("title"))
OfferProbe ==
    /\ probe.pc = "offer"
    /\ probe' = [ pc |-> "abbr", offer |-> probe.offer, abbr |-> abbreviateOffer(probe.offer) ]
    /\ UNCHANGED << now, locator, locatorFile, products, productsFile, pending, out >>

NextOffer == OfferProbe

SpecOffer == InitOffer /\ [][NextOffer]_vars

\* ------------------------------------------------ claims: abbreviations

RECURSIVE C15_Tokens(_)
\* the alphanumeric tokens of a text: its longest runs of letters and digits
C15_Tokens(s) ==
    IF s = << >> THEN << >>
    ELSE IF ~IsAlnum(Head(s)) THEN C15_Tokens(Tail(s))
    ELSE LET n == CHOOSE k \in 1..Len(s) :
                      /\ \A j \in 1..k : IsAlnum(s[j])
                      /\ k = Len(s) \/ ~IsAlnum(s[k + 1])
         IN  << SubSeq(s, 1, n) >> \o C15_Tokens(SubSeq(s, n + 1, Len(s)))

\* the title is abbreviated token by token: trimmed, it holds a space
C15_ManyWords(offer) == \E i \in 1..Len(Trim(offer)) : Trim(offer)[i] = " "

\* C15: the abbreviator maps "Buy One Get One Free" to "BOGOF", "Save" to
\* "SAVE" and "2 For £10" to "2-4-10"; for a title of several words the
\* result is the concatenation, in order and with no separator, of one
\* segment per alphanumeric token, the token "for" in any case giving "-4-".
C15_Abbreviations ==
    probe.pc = "abbr"
    => /\ probe.offer = Text_BuyOneGetOneFree => probe.abbr = << "B", "O", "G", "O", "F" >>
       /\ probe.offer = Text_Save => probe.abbr = << "S", "A", "V", "E" >>
       /\ probe.offer = Text_2For10 => probe.abbr = << "2", "-", "4", "-", "1", "0" >>
       /\ C15_ManyWords(probe.offer)
          => LET tokens == C15_Tokens(probe.offer)
             IN  probe.abbr =
                   Concat([ i \in 1..Len(tokens) |->
                              IF toLowerCase(tokens[i]) = << "f", "o", "r" >>
                              THEN << "-", "4", "-" >>
                              ELSE AbbreviateWord(tokens[i]) ])

\* C15 witness: "2 For £10" has been abbreviated to "2-4-10".
C15_Witness ==
    /\ probe.pc = "abbr"
    /\ probe.offer = Text_2For10
    /\ probe.abbr = << "2", "-", "4", "-", "1", "0" >>

RECURSIVE C16_Without(_, _)
\* text s without its letters of the given kind ("upper" or "any")
C16_Without(s, kind) ==
    IF s = << >> THEN << >>
    ELSE (IF IsUpper(Head(s)) \/ (kind = "any" /\ IsLower(Head(s)))
          THEN << >> ELSE << Head(s) >>) \o C16_Without(Tail(s), kind)

\* the title's tokens, each other than "for" turned into its first character
\* upper-cased and the rest of it without the letters of the given kind
C16_Abbreviated(offer, kind) ==
    LET tokens == C15_Tokens(offer)
    IN  Concat([ i \in 1..Len(tokens) |->
                   IF toLowerCase(tokens[i]) = << "f", "o", "r" >>
                   THEN << "-", "4", "-" >>
                   ELSE << ToUpperChar(tokens[i][1]) >>
                          \o C16_Without(Tail(tokens[i]), kind) ])

\* C16 as stated: every token other than "for" becomes its first character
\* upper-cased followed by the rest of the token without its upper-case
\* letters, so that lower-case letters and digits inside the token are kept.
C16_Original ==
    probe.pc = "abbr" /\ C15_ManyWords(probe.offer)
    => probe.abbr = C16_Abbreviated(probe.offer, "upper")

\* C16 amended: every token other than "for" becomes its first character
\* upper-cased followed by the rest of the token without any letter, of
\* either case: only the digits inside the token are kept.
C16_Amended ==
    probe.pc = "abbr" /\ C15_ManyWords(probe.offer)
    => probe.abbr = C16_Abbreviated(probe.offer, "any")

\* C16 witness: "Half Price2Day" has been abbreviated to "HP2", the
\* lower-case letters and the D inside the tokens dropped, the 2 kept.
C16_Witness ==
    /\ probe.pc = "abbr"
    /\ probe.offer = << "H", "a", "l", "f", " ", "P", "r", "i", "c", "e", "2", "D", "a", "y" >>
    /\ probe.abbr = << "H", "P", "2" >>

\* some whitespace character inside the trimmed title
C17_HasWhitespace(offer) == \E i \in 1..Len(Trim(offer)) : IsSpace(Trim(offer)[i])

\* C17: the abbreviator returns its input upper-cased and otherwise
\* unchanged exactly when the trimmed input holds no whitespace character;
\* every input whose trimmed form holds whitespace of any kind (space, tab)
\* is split into tokens and abbreviated.
C17_WhitespaceSplits ==
    probe.pc = "abbr"
    => IF C17_HasWhitespace(probe.offer)
       THEN probe.abbr = C16_Abbreviated(probe.offer, "any")
       ELSE probe.abbr = toUpperCase(probe.offer)

\* ------------------------------------------- Product.offers, on its own

\* the most badges on a page
MaxBadges == 3

Text_MemoryFoamCushioning ==
    << "M", "e", "m", "o", "r", "y", " ", "F", "o", "a", "m", " ", "C", "u", "s", "h", "i", "o", "n", "i", "n", "g" >>

\* titles of badges: the ignored one as written on the page, with blanks
\* around, in capitals, with two blanks inside, inside a longer title, and
\* an offer
BadgeTitles ==
    { << "M", "e", "m", "o", "r", "y", " ", "F", "o", "a", "m" >>,
      << " ", "m", "e", "m", "o", "r", "y", " ", "f", "o", "a", "m", " " >>,
      << "M", "E", "M", "O", "R", "Y", " ", "F", "O", "A", "M" >>,
      << "M", "e", "m", "o", "r", "y", " ", " ", "F", "o", "a", "m" >>,
      Text_MemoryFoamCushioning,
      Text_Save }

\* the badges of a page, in document order
BadgeLists == UNION { [ 1..n -> BadgeTitles ] : n \in 0..MaxBadges }

InitBadges ==
    /\ now = 1
    /\ locator = EmptyCache
    /\ locatorFile = EmptyCache
    /\ products = EmptyCache
    /\ productsFile = EmptyCache
    /\ pending = EmptyBag
    /\ out = NoOutput
    /\ \E l \in BadgeLists : probe = [ pc |-> "badges", titles |-> l ]

\* lines 372-379: the offers of a page with these badges
BadgesProbe ==
    /\ probe.pc = "badges"
    /\ probe' = [ pc     |-> "offers",
                  titles |-> probe.titles,
                  offers |-> KeepOffers([ i \in 1..Len(probe.titles) |->
                               ParseOffer([ title |-> probe.titles[i],
                                            img   |-> Str(<< "i" >>) ]) ]) ]
    /\ UNCHANGED << now, locator, locatorFile, products, productsFile, pending, out >>

NextBadges == BadgesProbe

SpecBadges == InitBadges /\ [][NextBadges]_vars

\* -------------------------------------------------- claims: ignored offers

\* the badges that stay: those whose trimmed title, lower-cased, is no entry
\* of the ignore list
C18_Staying(titles) ==
    { i \in 1..Len(titles) :
        \A k \in 1..Len(ignoredOffers) : toLowerCase(Trim(titles[i])) # ignoredOffers[k] }

\* the j-th of them in document order
C18_Nth(titles, j) ==
    CHOOSE i \in C18_Staying(titles) :
        Cardinality({ k \in C18_Staying(titles) : k < i }) = j - 1

\* C18: a badge is left out of Product.offers exactly when its trimmed
\* title, lower-cased, equals an entry of the ignore list; a badge whose
\* title only contains an ignored entry stays; the offers that remain are
\* in document order.
C18_IgnoredExactly ==
    probe.pc = "offers"
    => /\ Len(probe.offers) = Cardinality(C18_Staying(probe.titles))
       /\ \A j \in 1..Len(probe.offers) :
            probe.offers[j].name = Trim(probe.titles[C18_Nth(probe.titles, j)])
       /\ \A i \in 1..Len(probe.titles) :
            probe.titles[i] = Text_MemoryFoamCushioning => i \in C18_Staying(probe.titles)

\* C18 witness: of "Memory Foam Cushioning", " memory foam " and "Save" the
\* first and the last are the offers, in that order.
C18_Witness ==
    /\ probe.pc = "offers"
    /\ probe.titles = << Text_MemoryFoamCushioning,
                         << " ", "m", "e", "m", "o", "r", "y", " ", "f", "o", "a", "m", " " >>,
                         Text_Save >>
    /\ Len(probe.offers) = 2
    /\ probe.offers[1].name = Text_MemoryFoamCushioning
    /\ probe.offers[2].name = Text_Save

\* ------------------------------------- the quantity of a stock check

\* the largest quantity drawn, in units
MaxQuantity == 12

\* ?quantity= of the stock route: absent, empty, not a number, Infinity, or
\* a number (in thousandths) from -2 to MaxQuantity in quarters
QuantityInputs ==
    { Undefined, Str(<< >>), Str(<< " " >>), Str(<< "x" >>), Str(Text_Infinity),
      Str(<< "0" >>), Str(<< "7" >>) }
    \cup { Num(250 * k) : k \in -8..(4 * MaxQuantity) }

InitQuantity ==
    /\ now = 1
    /\ locator = EmptyCache
    /\ locatorFile = EmptyCache
    /\ products = EmptyCache
    /\ productsFile = EmptyCache
    /\ pending = EmptyBag
    /\ out = NoOutput
    /\ \E q \in QuantityInputs : probe = [ pc |-> "quantity", quantity |-> q ]

\* the stock route and checkStoreStock up to the request body
QuantityProbe ==
    LET params == [ storeId |-> 1649,
                    styleCode |-> << "1", "5", "0", "7", "0", "0", "4", "0" >> ]
        args   == StockRouteArgs(params, [ quantity |-> probe.quantity ])
    IN  /\ probe.pc = "quantity"
        /\ probe' = [ pc       |-> "sent",
                      quantity |-> probe.quantity,
                      Qty      |-> StockRequest(args).Qty ]
        /\ UNCHANGED << now, locator, locatorFile, products, productsFile, pending, out >>

NextQuantity == QuantityProbe

SpecQuantity == InitQuantity /\ [][NextQuantity]_vars

\* ------------------------------------------------------ claims: quantity

\* the text is the decimal writing of a whole number of at least 1
C19_PositiveInteger(text) ==
    /\ text # << >>
    /\ \A i \in 1..Len(text) : IsDigit(text[i])
    /\ DigitsValue(text) >= 1

\* C19: the quantity sent upstream by a stock check is always a positive
\* integer: 1 when the quantity is absent, not a number, zero, negative
\* (or otherwise below 1), and the supplied quantity rounded down otherwise.
C19_QuantitySent ==
    probe.pc = "sent"
    => LET n == ToNumber(probe.quantity)
       IN  /\ C19_PositiveInteger(probe.Qty)
           /\ n.t = "nan" => probe.Qty = << "1" >>
           /\ n.t = "number" /\ n.v < 1000 => probe.Qty = << "1" >>
           /\ n.t = "number" /\ n.v >= 1000 => DigitsValue(probe.Qty) = n.v \div 1000

\* ------------------------------------------------- claims: cache layout

\* text s starts with prefix
C20_StartsWith(s, prefix) ==
    Len(s) >= Len(prefix) /\ SubSeq(s, 1, Len(prefix)) = prefix

\* a location cache: keys `near:...`, values Store records and nothing else
C20_LocatorLayout(cache) ==
    \A k \in DOMAIN cache :
        /\ C20_StartsWith(k, << "n", "e", "a", "r", ":" >>)
        /\ DOMAIN cache[k] = { "storeName", "storeId", "storeAddress", "storePhone" }

\* a page cache: keys `page@sz:` and a lower-cased path, values
\* { timestamp, value } with a Product as value
C20_PageLayout(cache) ==
    \A k \in DOMAIN cache :
        /\ C20_StartsWith(k, << "p", "a", "g", "e", "@", "s", "z", ":", "/" >>)
        /\ \A i \in 1..Len(k) : ~IsUpper(k[i])
        /\ DOMAIN cache[k] = { "timestamp", "value" }
        /\ cache[k].timestamp \in 1..now
        /\ DOMAIN cache[k].value = { "id", "name", "price", "currency", "thumbnail",
                                     "categories", "sizeRange", "offers" }

\* C20: in every reachable state both caches keep their layout: location
\* keys start with `near:` and hold a complete Store record with no
\* envelope, page keys are `page@sz:` and a lower-cased path and hold
\* { timestamp, value } with a parsed Product; and locateStore never
\* changes the page cache, getProductInfo never the location cache.
C20_CacheLayout ==
    /\ [](/\ C20_LocatorLayout(locator) /\ C20_LocatorLayout(locatorFile)
          /\ C20_PageLayout(products) /\ C20_PageLayout(productsFile))
    /\ [][ /\ out'.to # "nobody" /\ out'.op = "locate"
              => UNCHANGED << products, productsFile >>
           /\ out'.to # "nobody" /\ out'.op = "product"
              => UNCHANGED << locator, locatorFile >> ]_vars

\* C20 witness: a page has just been stored while the location cache holds
\* a Store.
C20_Witness ==
    /\ out.to = "caller" /\ out.op = "product" /\ out.reply # NoReply /\ out.res.ok
    /\ out.cacheKey \in DOMAIN products
    /\ products[out.cacheKey].timestamp = now
    /\ locator # EmptyCache

\* ------------------------------------------ claims: keys of other queries

\* C21: a cache hit only ever returns a Store fetched for the same query:
\* two calls that send different upstream search requests (city "x"
\* without postcode and postcode "x" without city, for one) never compute
\* the same cache key, and the second never finds what the first stored.
C21_OtherRequestOtherKey ==
    probe.pc = "keys" /\ probe.requestA # probe.requestB
    => /\ probe.keyA # probe.keyB
       /\ ~probe.hitB

====
